---- MODULE Spec2Model ----
(***************************************************************************)
(* Schedule-tree transformations of tc/core/polyhedral/                    *)
(* schedule_transforms.cc.                                                 *)
(*                                                                         *)
(* A schedule tree is a nested record; a node pointer of the C++ code is   *)
(* the path (sequence of child indices, 1-based) from the root to the      *)
(* node.  A statement instance is a pair <<statement name, index>>; a set  *)
(* (isl::union_set) is a set of instances; a member of a band's partial    *)
(* schedule (isl::union_pw_aff) is a function from instances to integers; a*)
(* schedule (isl::union_map) is a set of pairs <<instance, coordinates>>.  *)
(***************************************************************************)
EXTENDS Integers, Sequences, FiniteSets, TLC

VARIABLES
    tree,          \* the schedule tree, after the calls made so far
    pre,           \* the tree as it was when the last call (or loop step) began
    call,          \* the last call: its name and arguments
    status,        \* "none", "ok" (returned) or "fatal" (a CHECK failed)
    pc,            \* position inside a call that loops: "idle", "loop", "scan", "done"
    moveChildren,  \* local of joinBandsIterative
    result,        \* value returned by the last query
    orig           \* the tree before the first call

vars == <<tree, pre, call, status, pc, moveChildren, result, orig>>

----------------------------------------------------------------------------
(* Bounds *)

MaxChain == 3        \* longest chain of nested bands in an input tree
MaxMembers == 2      \* most members of the bands of such a chain, in total
MaxSplitChain == 2   \* longest chain of nested bands in an input of bandSplit
MaxSplitMembers == 3 \* most members of the bands of such a chain, in total
MaxTileMembers == 2  \* most members of a band given to bandTile
MaxTile == 3         \* largest tile size
NumPts == 4          \* iteration points of statement S
MaxDepth == 3        \* longest path below the root in an input of the queries
MaxWrap == 2         \* most nodes between the root and the part a label goes to
MaxGistSeq == 3      \* most children of a Sequence given to gist
MaxMergeChain == 3   \* longest chain of nested mapping filters in an input tree
MaxMergeNode == 2    \* longest path from the root to the node a merge is called on

----------------------------------------------------------------------------
(* Statement instances, sets and affine functions *)

SInst == {<<"S", i>> : i \in 0..(NumPts - 1)}
TInst == {<<"T", 0>>}
DomInst == SInst \cup TInst

\* the zero-argument instances of statements that extension nodes introduce
L1 == <<"L1", 0>>
L2 == <<"L2", 0>>
L3 == <<"L3", 0>>

\* the member a(X(i)) = c*i + d, defined on the instances dom
AffOn(dom, c, d) == [p \in dom |-> c * p[2] + d]

\* the member a(S(i)) = c*i + d, a(T(j)) = c*j + d
Aff(c, d) == AffOn(DomInst, c, d)

NoSet == {}
NoMupa == <<>>

----------------------------------------------------------------------------
(* Nodes.  Every node has the same fields; a kind uses the ones it has.    *)

MkNode(kind, set, mupa, coincident, unroll, permutable, ext, ids, children) ==
    [kind |-> kind, set |-> set, mupa |-> mupa, coincident |-> coincident,
     unroll |-> unroll, permutable |-> permutable, ext |-> ext, ids |-> ids,
     children |-> children]

makeDomain(dom, children) ==
    MkNode("Domain", dom, NoMupa, <<>>, <<>>, FALSE, {}, {}, children)

makeFilter(filter, children) ==
    MkNode("Filter", filter, NoMupa, <<>>, <<>>, FALSE, {}, {}, children)

makeMappingFilter(filter, ids, children) ==
    MkNode("MappingFilter", filter, NoMupa, <<>>, <<>>, FALSE, {}, ids, children)

makeSequence(children) ==
    MkNode("Sequence", NoSet, NoMupa, <<>>, <<>>, FALSE, {}, {}, children)

makeExtension(ext, children) ==
    MkNode("Extension", NoSet, NoMupa, <<>>, <<>>, FALSE, ext, {}, children)

\* ScheduleTree::makeBand: a band with all flags false
makeBand(mupa, children) ==
    MkNode("Band", NoSet, mupa, [i \in 1..Len(mupa) |-> FALSE],
           [i \in 1..Len(mupa) |-> FALSE], FALSE, {}, {}, children)

nMember(band) == Len(band.mupa)

\* elemAsBase<ScheduleTreeElemFilter>: a Filter or a MappingFilter
IsFilterBase(n) == n.kind \in {"Filter", "MappingFilter"}

----------------------------------------------------------------------------
(* Tree navigation and edits *)

RECURSIVE NodeAt(_, _)
NodeAt(t, path) ==
    IF path = <<>> THEN t ELSE NodeAt(t.children[Head(path)], Tail(path))

RECURSIVE ReplaceAt(_, _, _)
ReplaceAt(t, path, new) ==
    IF path = <<>> THEN new
    ELSE [t EXCEPT !.children[Head(path)] = ReplaceAt(@, Tail(path), new)]

RECURSIVE Paths(_)
Paths(t) ==
    {<<>>} \cup UNION {{<<i>> \o p : p \in Paths(t.children[i])} :
                        i \in 1..Len(t.children)}

ParentPath(path) == SubSeq(path, 1, Len(path) - 1)
positionInParent(path) == path[Len(path)]

\* node->ancestors(root): the nodes from the root down to the parent of node
ancestors(root, path) ==
    [i \in 1..Len(path) |-> NodeAt(root, SubSeq(path, 1, i - 1))]

insertChild(children, pos, n) ==
    SubSeq(children, 1, pos - 1) \o <<n>> \o SubSeq(children, pos, Len(children))

detachChild(children, pos) ==
    SubSeq(children, 1, pos - 1) \o SubSeq(children, pos + 1, Len(children))

RECURSIVE CountKind(_, _)
CountKind(t, kind) ==
    LET RECURSIVE Sum(_)
        Sum(i) == IF i = 0 THEN 0
                  ELSE CountKind(t.children[i], kind) + Sum(i - 1)
    IN (IF t.kind = kind THEN 1 ELSE 0) + Sum(Len(t.children))

----------------------------------------------------------------------------
(* Band manipulation *)

\* isl::multi_union_pw_aff::flat_range_product: stack the dimensions
flat_range_product(m1, m2) == m1 \o m2

\* joinBandsHelper without the insert into unroll_
joinBandsHelper_NoUnroll(st) ==
    IF Len(st.children) # 1 THEN [st |-> st, moveChildren |-> FALSE]
    ELSE IF st.children[1].kind # "Band" THEN [st |-> st, moveChildren |-> FALSE]
    ELSE LET c == st.children[1]
         IN [st |-> [st EXCEPT
                       !.mupa = flat_range_product(@, c.mupa),
                       !.coincident = @ \o [i \in 1..Len(c.coincident) |-> FALSE]],
             moveChildren |-> TRUE]

\* precondition (CHECK): st is a Band
joinBandsHelper(st) ==
    IF Len(st.children) # 1 THEN [st |-> st, moveChildren |-> FALSE]
    ELSE IF st.children[1].kind # "Band" THEN [st |-> st, moveChildren |-> FALSE]
    ELSE LET c == st.children[1]
         IN [st |-> [st EXCEPT
                       !.mupa = flat_range_product(@, c.mupa),
                       \* coincident_.resize(old + child, false)
                       !.coincident = @ \o [i \in 1..Len(c.coincident) |-> FALSE],
                       !.unroll = @ \o c.unroll],
             moveChildren |-> TRUE]

\* st->detachChildren(); st->appendChildren(children[0]->detachChildren())
MoveGrandChildren(st) == [st EXCEPT !.children = st.children[1].children]

joinBands(st, permutable) ==
    LET h == joinBandsHelper(st)
        st1 == IF h.moveChildren THEN MoveGrandChildren(h.st) ELSE h.st
    IN [st1 EXCEPT !.permutable = permutable]

----------------------------------------------------------------------------
(* Input trees: a Domain over a chain of nested bands over some leaves *)

Leaf == makeFilter(SInst, <<>>)
LeafLists == {<<>>, <<Leaf>>, <<Leaf, makeFilter(TInst, <<>>)>>}

\* the bands a chain is made of: band number k has m members Aff(k, j), any
\* coincident flags, and unroll flags that are the coincident flags in the
\* odd bands and their negation in the even bands
ChainBands(k, m) ==
    {MkNode("Band", NoSet, [j \in 1..m |-> Aff(k, j)], co,
            [j \in 1..m |-> co[j] # (k % 2 = 0)], FALSE, {}, {}, <<>>) :
        co \in [1..m -> BOOLEAN]}

RECURSIVE Chains(_, _, _)
\* the chains of n bands numbered k, k+1, ..., each the single child of the
\* last, with at most MaxM members in all
Chains(k, n, MaxM) ==
    UNION {IF n = 1
           THEN {[b EXCEPT !.children = l] : b \in ChainBands(k, m), l \in LeafLists}
           ELSE {[b EXCEPT !.children = <<c>>] :
                    b \in ChainBands(k, m), c \in Chains(k + 1, n - 1, MaxM - m)} :
           m \in 0..MaxM}

JoinTrees ==
    {makeDomain(DomInst, <<c>>) : c \in UNION {Chains(1, n, MaxMembers) : n \in 1..MaxChain}}

NoCall == [name |-> "none"]

InitJoin ==
    /\ tree \in JoinTrees
    /\ pre = tree
    /\ call = NoCall
    /\ status = "none"
    /\ pc = "idle"
    /\ moveChildren = FALSE
    /\ result = {}
    /\ orig = tree

----------------------------------------------------------------------------
(* Calls of joinBands and joinBandsIterative *)

JoinBandsCall ==
    /\ call.name = "none"
    /\ \E path \in Paths(tree), permutable \in BOOLEAN :
         /\ call' = [name |-> "joinBands", path |-> path, permutable |-> permutable,
                     after |-> "none"]
         /\ pre' = tree
         /\ IF NodeAt(tree, path).kind # "Band"
            THEN /\ status' = "fatal"
                 /\ tree' = tree
            ELSE /\ status' = "ok"
                 /\ tree' = ReplaceAt(tree, path, joinBands(NodeAt(tree, path), permutable))
    /\ UNCHANGED <<pc, moveChildren, result, orig>>

\* bool moveChildren = true; while (moveChildren) ...
JoinBandsIterativeCall ==
    /\ call.name = "none"
    /\ \E path \in Paths(tree), permutable \in BOOLEAN :
         call' = [name |-> "joinBandsIterative", path |-> path, permutable |-> permutable]
    /\ pre' = tree
    /\ pc' = "loop"
    /\ moveChildren' = TRUE
    /\ UNCHANGED <<tree, status, result, orig>>

\* one iteration of the loop
JoinBandsIterativeStep ==
    /\ pc = "loop"
    /\ moveChildren
    /\ pre' = tree
    /\ IF NodeAt(tree, call.path).kind # "Band"
       THEN /\ status' = "fatal"
            /\ pc' = "done"
            /\ UNCHANGED <<tree, moveChildren>>
       ELSE LET h == joinBandsHelper(NodeAt(tree, call.path))
            IN /\ moveChildren' = h.moveChildren
               /\ tree' = ReplaceAt(tree, call.path,
                                    IF h.moveChildren THEN MoveGrandChildren(h.st) ELSE h.st)
               /\ UNCHANGED <<status, pc>>
    /\ UNCHANGED <<call, result, orig>>

\* the loop is left: set permutable_ and return
JoinBandsIterativeReturn ==
    /\ pc = "loop"
    /\ ~moveChildren
    /\ pre' = tree
    /\ tree' = ReplaceAt(tree, call.path,
                         [NodeAt(tree, call.path) EXCEPT !.permutable = call.permutable])
    /\ status' = "ok"
    /\ pc' = "done"
    /\ UNCHANGED <<call, moveChildren, result, orig>>

NextJoin ==
    \/ JoinBandsCall
    \/ JoinBandsIterativeCall
    \/ JoinBandsIterativeStep
    \/ JoinBandsIterativeReturn

SpecJoin == InitJoin /\ [][NextJoin]_vars

----------------------------------------------------------------------------
(* C1 *)

\* the last step merged the band at call.path with its single Band child
MergedStep ==
    \/ /\ call.name = "joinBands"
       /\ status = "ok"
       /\ joinBandsHelper(NodeAt(pre, call.path)).moveChildren
    \/ /\ call.name = "joinBandsIterative"
       /\ pc = "loop"
       /\ tree # pre

IterativeReturned ==
    call.name = "joinBandsIterative" /\ pc = "done" /\ status = "ok"

Falses(n) == [i \in 1..n |-> FALSE]

\* C1 as stated: after a merge every coincident flag of the merged band is
\* false, the unroll vector is the outer band's followed by the child's, and
\* joinBandsIterative on a chain of bands ends with exactly one band.
C1_Original ==
    /\ MergedStep =>
         LET o == NodeAt(pre, call.path)
             r == NodeAt(tree, call.path)
         IN /\ \A i \in 1..Len(r.coincident) : r.coincident[i] = FALSE
            /\ r.unroll = o.unroll \o o.children[1].unroll
    /\ IterativeReturned => CountKind(NodeAt(tree, call.path), "Band") = 1

\* C1 amended: after a merge the coincident flags of the members that came
\* from the child band are false and the flags of the members of the outer
\* band keep the value they had; the unroll vector is the outer band's
\* followed by the child's; joinBandsIterative on a chain of bands ends with
\* exactly one band, which has all the members of the chain.
C1_Amended ==
    /\ MergedStep =>
         LET o == NodeAt(pre, call.path)
             c == o.children[1]
             r == NodeAt(tree, call.path)
         IN /\ r.coincident = o.coincident \o Falses(Len(c.coincident))
            /\ Len(r.coincident) = nMember(o) + nMember(c)
            /\ r.unroll = o.unroll \o c.unroll
            /\ r.children = c.children
    /\ IterativeReturned =>
         /\ CountKind(NodeAt(tree, call.path), "Band") = 1
         /\ CountKind(NodeAt(orig, call.path), "Band") >= 1
         /\ NodeAt(tree, call.path).permutable = call.permutable

\* a second merge step of joinBandsIterative, on a band that carries a true
\* coincident flag, with a child that has a member whose flags are true
C1_Witness ==
    /\ call.name = "joinBandsIterative"
    /\ pc = "loop"
    /\ tree # pre
    /\ pre # orig
    /\ LET o == NodeAt(pre, call.path)
           c == o.children[1]
       IN /\ \E i \in 1..Len(o.coincident) : o.coincident[i]
          /\ nMember(c) > 0
          /\ c.coincident[1]
          /\ c.unroll[1]

----------------------------------------------------------------------------
(* bandSplit *)

\* ScheduleTreeElemBand::drop(pos, n): remove the members pos .. pos+n-1
\* (0-based) with their flags
drop(band, pos, n) ==
    LET Cut(s) == SubSeq(s, 1, pos) \o SubSeq(s, pos + n + 1, Len(s))
    IN [band EXCEPT !.mupa = Cut(@), !.coincident = Cut(@), !.unroll = Cut(@)]

\* bandSplit without newChildBand->drop(0, pos)
bandSplit_KeepAll(t, pos) ==
    LET n == nMember(t)
        newChild == [t EXCEPT !.children = t.children]
    IN [drop(t, pos, n - pos) EXCEPT !.children = <<newChild>>]

\* preconditions (CHECK): t is a Band, 0 < n, pos <= n
bandSplit(t, pos) ==
    LET n == nMember(t)
        \* makeScheduleTree(*tree) after detachChildren(), then the children
        newChild == drop([t EXCEPT !.children = t.children], 0, pos)
    IN [drop(t, pos, n - pos) EXCEPT !.children = <<newChild>>]

SplitTrees ==
    {makeDomain(DomInst, <<c>>) :
        c \in UNION {Chains(1, n, MaxSplitMembers) : n \in 1..MaxSplitChain}}

InitSplit ==
    /\ tree \in SplitTrees
    /\ pre = tree
    /\ call = NoCall
    /\ status = "none"
    /\ pc = "idle"
    /\ moveChildren = FALSE
    /\ result = {}
    /\ orig = tree

BandSplitCall ==
    /\ call.name = "none"
    /\ \E path \in Paths(tree) :
       \E pos \in 0..(nMember(NodeAt(tree, path)) + 1) :
         LET t == NodeAt(tree, path)
         IN /\ call' = [name |-> "bandSplit", path |-> path, pos |-> pos]
            /\ pre' = tree
            /\ IF t.kind # "Band" \/ ~(0 < nMember(t)) \/ ~(nMember(t) >= pos)
               THEN /\ status' = "fatal"
                    /\ tree' = tree
               ELSE /\ status' = "ok"
                    /\ tree' = ReplaceAt(tree, path, bandSplit(t, pos))
    /\ UNCHANGED <<pc, moveChildren, result, orig>>

\* joinBands on the node bandSplit returned
JoinBandsAfterSplit ==
    /\ call.name = "bandSplit"
    /\ status = "ok"
    /\ \E permutable \in BOOLEAN :
         /\ call' = [name |-> "joinBands", path |-> call.path, permutable |-> permutable,
                     after |-> "bandSplit", pos |-> call.pos]
         /\ tree' = ReplaceAt(tree, call.path, joinBands(NodeAt(tree, call.path), permutable))
    /\ pre' = tree
    /\ UNCHANGED <<status, pc, moveChildren, result, orig>>

NextSplit ==
    \/ BandSplitCall
    \/ JoinBandsAfterSplit

SpecSplit == InitSplit /\ [][NextSplit]_vars

SplitThenJoined ==
    call.name = "joinBands" /\ call.after = "bandSplit" /\ status = "ok"

\* C2: bandSplit at any pos in 0..n followed by joinBands on the returned node
\* gives a band at the same place with the same n members in the same order
\* and the original children, and nothing else in the tree has changed.
C2_RoundTrip ==
    SplitThenJoined =>
        LET o == NodeAt(orig, call.path)
            r == NodeAt(tree, call.path)
        IN /\ r.kind = "Band"
           /\ r.mupa = o.mupa
           /\ r.children = o.children
           /\ r.unroll = o.unroll
           /\ ReplaceAt(tree, call.path, o) = orig

\* a round trip through a split strictly inside a band whose children include
\* a band of their own
C2_Witness ==
    /\ SplitThenJoined
    /\ nMember(NodeAt(orig, call.path)) >= 2
    /\ call.pos = 1
    /\ Len(NodeAt(orig, call.path).children) = 1
    /\ NodeAt(orig, call.path).children[1].kind = "Band"

----------------------------------------------------------------------------
(* bandTile *)

\* isl::union_pw_aff::scale_down(v).floor()
scale_down_floor(upa, v) == [p \in DOMAIN upa |-> upa[p] \div v]

\* isl::union_pw_aff::scale_val(v)
scale_val(upa, v) == [p \in DOMAIN upa |-> upa[p] * v]

\* isl::multi_union_pw_aff::scale_multi_val(makeMultiVal(space, ts))
scale_multi_val(mupa, ts) == [i \in 1..Len(mupa) |-> scale_val(mupa[i], ts[i])]

\* isl::multi_union_pw_aff::sub
sub(m1, m2) == [i \in 1..Len(m1) |-> [p \in DOMAIN m1[i] |-> m1[i][p] - m2[i][p]]]

\* std::vector::resize(n, 0)
resize(v, n) == [i \in 1..n |-> IF i <= Len(v) THEN v[i] ELSE 0]

\* the loop over the members of bandTile
TileMember(upa, t, scaleTileLoops) ==
    IF t # 0
    THEN IF scaleTileLoops THEN scale_val(scale_down_floor(upa, t), t)
         ELSE scale_down_floor(upa, t)
    ELSE scale_val(upa, t)

\* bandTile without CHECK(band.permutable_)
bandTile_NoPermutableCheck(st, tileSizes, opts) ==
    IF st.kind # "Band" THEN [status |-> "fatal", st |-> st]
    ELSE IF Len(tileSizes) = 0 THEN [status |-> "ok", st |-> st]
    ELSE
        LET ts == resize(tileSizes, nMember(st))
            outer == [i \in 1..nMember(st) |-> TileMember(st.mupa[i], ts[i], opts.scale)]
            child == [st EXCEPT !.mupa = IF opts.shift THEN sub(st.mupa, outer) ELSE @]
        IN [status |-> "ok", st |-> [st EXCEPT !.mupa = outer, !.children = <<child>>]]

\* bandTile that subtracts the tile loop without scaling it by the tile sizes
bandTile_ShiftFromTile(st, tileSizes, opts) ==
    IF st.kind # "Band" THEN [status |-> "fatal", st |-> st]
    ELSE IF Len(tileSizes) = 0 THEN [status |-> "ok", st |-> st]
    ELSE IF ~st.permutable THEN [status |-> "fatal", st |-> st]
    ELSE
        LET ts == resize(tileSizes, nMember(st))
            outer == [i \in 1..nMember(st) |-> TileMember(st.mupa[i], ts[i], opts.scale)]
            child == [st EXCEPT !.mupa = IF opts.shift THEN sub(st.mupa, outer) ELSE @]
        IN [status |-> "ok", st |-> [st EXCEPT !.mupa = outer, !.children = <<child>>]]

bandTile(st, tileSizes, opts) ==
    IF st.kind # "Band" THEN [status |-> "fatal", st |-> st]
    ELSE IF Len(tileSizes) = 0 THEN [status |-> "ok", st |-> st]
    ELSE IF ~st.permutable THEN [status |-> "fatal", st |-> st]
    ELSE
        LET \* padded with zeros, or truncated, to nMember entries
            ts == resize(tileSizes, nMember(st))
            \* makeScheduleTree(*st): a copy of st, children included
            childUPtr == st
            outer == [i \in 1..nMember(st) |-> TileMember(st.mupa[i], ts[i], opts.scale)]
            mupa == IF opts.scale THEN outer ELSE scale_multi_val(outer, ts)
            child == [childUPtr EXCEPT !.mupa = IF opts.shift THEN sub(@, mupa) ELSE @]
        IN [status |-> "ok", st |-> [st EXCEPT !.mupa = outer, !.children = <<child>>]]

TileAffs == {Aff(1, 0), Aff(2, -3)}

Mupas(n) == [1..n -> TileAffs]

TileBands ==
    {MkNode("Band", NoSet, m, [i \in 1..Len(m) |-> i % 2 = 1], [i \in 1..Len(m) |-> i % 2 = 0],
            permutable, {}, {}, l) :
        <<m, permutable, l>> \in
            (UNION {Mupas(n) : n \in 1..MaxTileMembers}) \X BOOLEAN \X LeafLists}

TileTrees == {makeDomain(DomInst, <<b>>) : b \in TileBands}

TileSizes(n) == UNION {[1..k -> 0..MaxTile] : k \in 0..(n + 1)}

TileOptions == [scale : BOOLEAN, shift : BOOLEAN]

InitTile ==
    /\ tree \in TileTrees
    /\ pre = tree
    /\ call = NoCall
    /\ status = "none"
    /\ pc = "idle"
    /\ moveChildren = FALSE
    /\ result = {}
    /\ orig = tree

BandTileCall ==
    /\ call.name = "none"
    /\ \E path \in Paths(tree) :
       \E tileSizes \in TileSizes(nMember(NodeAt(tree, path))), opts \in TileOptions :
         LET r == bandTile(NodeAt(tree, path), tileSizes, opts)
         IN /\ call' = [name |-> "bandTile", path |-> path, tileSizes |-> tileSizes,
                        opts |-> opts]
            /\ status' = r.status
            /\ tree' = ReplaceAt(tree, path, r.st)
    /\ pre' = tree
    /\ UNCHANGED <<pc, moveChildren, result, orig>>

NextTile == BandTileCall

SpecTile == InitTile /\ [][NextTile]_vars

TileCalled == call.name = "bandTile" /\ NodeAt(pre, call.path).kind = "Band"

\* q = floor(a / t), stated without the division
IsFloorDiv(q, a, t) == q * t <= a /\ a < (q + 1) * t

\* C3: with a permutable band and a positive tile size for every member, the
\* node's member i becomes floor(a_i / t_i), times t_i exactly when
\* ScaleTileLoops is set; the node gets exactly one child, a band whose
\* member i is a_i without ShiftPointLoops and a_i - t_i*floor(a_i / t_i), in
\* [0, t_i), with it; the inner band has the original children in order.
C3_Tiled ==
    LET o == NodeAt(pre, call.path)
        r == NodeAt(tree, call.path)
        t == call.tileSizes
    IN (/\ TileCalled
        /\ o.permutable
        /\ Len(t) >= nMember(o)
        /\ \A i \in 1..nMember(o) : t[i] > 0)
       =>
       /\ status = "ok"
       /\ nMember(r) = nMember(o)
       /\ Len(r.children) = 1
       /\ r.children[1].kind = "Band"
       /\ nMember(r.children[1]) = nMember(o)
       /\ r.children[1].children = o.children
       /\ \A i \in 1..nMember(o) : \A p \in DomInst :
            \E q \in -10..10 :
              /\ IsFloorDiv(q, o.mupa[i][p], t[i])
              /\ r.mupa[i][p] = IF call.opts.scale THEN q * t[i] ELSE q
              /\ r.children[1].mupa[i][p] =
                    IF call.opts.shift THEN o.mupa[i][p] - t[i] * q ELSE o.mupa[i][p]
              /\ call.opts.shift => r.children[1].mupa[i][p] \in 0..(t[i] - 1)

\* tiling by 3 with ShiftPointLoops and without ScaleTileLoops, of a band with
\* two children and a member with negative values
C3_Witness ==
    /\ TileCalled
    /\ status = "ok"
    /\ NodeAt(pre, call.path).permutable
    /\ call.tileSizes = <<3>>
    /\ call.opts = [scale |-> FALSE, shift |-> TRUE]
    /\ NodeAt(pre, call.path).mupa = <<Aff(2, -3)>>
    /\ Len(NodeAt(pre, call.path).children) = 2

\* C4 as stated: bandTile on a band that is not permutable is fatal for every
\* tileSizes vector, the empty one included.
C4_Original ==
    (TileCalled /\ ~NodeAt(pre, call.path).permutable) => status = "fatal"

\* C4 amended: bandTile on a band that is not permutable is fatal for every
\* non-empty tileSizes vector and leaves the tree as it was; with the empty
\* vector it returns the node, unchanged, whatever the permutable flag.
C4_Amended ==
    /\ (TileCalled /\ ~NodeAt(pre, call.path).permutable /\ Len(call.tileSizes) > 0)
          => (status = "fatal" /\ tree = pre)
    /\ (TileCalled /\ Len(call.tileSizes) = 0) => (status = "ok" /\ tree = pre)

\* a fatal call with tile sizes on a band that is not permutable
C4_Witness ==
    /\ TileCalled
    /\ ~NodeAt(pre, call.path).permutable
    /\ Len(call.tileSizes) > 0
    /\ status = "fatal"

\* C5: a member whose tile size is 0, requested or padded, has the same affine
\* function in the tiled node after the call as before it.
C5_ZeroUntiled ==
    LET o == NodeAt(pre, call.path)
        r == NodeAt(tree, call.path)
        ts == resize(call.tileSizes, nMember(o))
    IN (TileCalled /\ status = "ok") =>
         \A i \in 1..nMember(o) : ts[i] = 0 => r.mupa[i] = o.mupa[i]

----------------------------------------------------------------------------
(* Schedules (isl::union_map) and extension relations                      *)
(*                                                                         *)
(* A schedule is [null, rel]: null for isl::null<isl::union_map>(), else   *)
(* rel is a set of pairs <<instance, coordinates>>.  An extension relation *)
(* is a set of [dim, all, at, out]: the coordinates of length dim (all of  *)
(* them, or the one tuple "at") are related to the instance out.           *)

NullSchedule == [null |-> TRUE, rel |-> {}]

ExtAt(at, out) == [dim |-> Len(at), all |-> FALSE, at |-> at, out |-> out]
ExtAll(dim, out) == [dim |-> dim, all |-> TRUE, at |-> <<>>, out |-> out]

Matches(e, c) == Len(c) = e.dim /\ (e.all \/ e.at = c)

\* isl::union_map::from_domain
from_domain(set) == [null |-> FALSE, rel |-> {<<i, <<>>>> : i \in set}]

\* isl::union_map::range
range(schedule) == {x[2] : x \in schedule.rel}

\* isl::union_map::domain
domain(schedule) == {x[1] : x \in schedule.rel}

\* isl::union_map::intersect_domain
intersect_domain(schedule, set) ==
    [schedule EXCEPT !.rel = {x \in @ : x[1] \in set}]

\* the instances on which every member of mupa is defined
MupaDomain(mupa) == {i \in DOMAIN mupa[1] : \A j \in 1..Len(mupa) : i \in DOMAIN mupa[j]}

\* schedule.flat_range_product(isl::union_map::from(mupa)), for nMember > 0
flat_range_product_map(schedule, mupa) ==
    [schedule EXCEPT !.rel =
        {<<x[1], x[2] \o [j \in 1..Len(mupa) |-> mupa[j][x[1]]]>> :
            x \in {y \in @ : y[1] \in MupaDomain(mupa)}}]

\* extension.reverse().intersect_range(coords)
reverse_intersect_range(ext, coords) ==
    {<<e.out, c>> : <<e, c>> \in {y \in ext \X coords : Matches(y[1], y[2])}}

\* coords.apply(extension)
apply(coords, ext) == {e.out : e \in {y \in ext : \E c \in coords : Matches(y, c)}}

\* extension.range()
ext_range(ext) == {e.out : e \in ext}

\* extension.dim(isl::dim_type::in) == 0
InDimIsZero(ext) == \A e \in ext : e.dim = 0

\* extendSchedule without the branch for filters
extendSchedule_KeepFiltered(node, schedule) ==
    IF node.kind = "Band"
    THEN IF nMember(node) > 0 THEN flat_range_product_map(schedule, node.mupa)
         ELSE schedule
    ELSE IF node.kind = "Extension"
    THEN [schedule EXCEPT !.rel = @ \cup reverse_intersect_range(node.ext, range(schedule))]
    ELSE schedule

extendSchedule(node, schedule) ==
    IF node.kind = "Band"
    THEN IF nMember(node) > 0 THEN flat_range_product_map(schedule, node.mupa)
         ELSE schedule
    ELSE IF IsFilterBase(node)
    THEN intersect_domain(schedule, node.set)
    ELSE IF node.kind = "Extension"
    THEN [schedule EXCEPT !.rel = @ \cup reverse_intersect_range(node.ext, range(schedule))]
    ELSE schedule

RECURSIVE ScheduleLoop(_, _, _)
\* for (auto anc : nodes): the nodes from number i on
ScheduleLoop(nodes, i, schedule) ==
    IF i > Len(nodes) THEN schedule
    ELSE IF nodes[i].kind = "Domain"
    THEN ScheduleLoop(nodes, i + 1, from_domain(nodes[i].set))
    \* extending a null schedule is an error of the set library
    ELSE IF schedule.null THEN schedule
    ELSE ScheduleLoop(nodes, i + 1, extendSchedule(nodes[i], schedule))

partialScheduleImpl(root, path, useNode) ==
    LET nodes == IF useNode THEN Append(ancestors(root, path), NodeAt(root, path))
                 ELSE ancestors(root, path)
    IN ScheduleLoop(nodes, 1, NullSchedule)

prefixSchedule(root, path) == partialScheduleImpl(root, path, FALSE)

partialSchedule(root, path) == partialScheduleImpl(root, path, TRUE)

RECURSIVE ActiveLoop(_, _, _, _)
\* for (auto anc : node->ancestors(root)): the ancestors from number i on
ActiveLoop(root, path, i, dom) ==
    IF i > Len(path) THEN [status |-> "ok", set |-> dom]
    ELSE
      LET ancPath == SubSeq(path, 1, i - 1)
          anc == NodeAt(root, ancPath)
      IN IF IsFilterBase(anc)
         THEN ActiveLoop(root, path, i + 1, dom \cap anc.set)
         ELSE IF anc.kind = "Extension"
         THEN LET parentSchedule == prefixSchedule(root, ancPath)
              IN IF ~(~parentSchedule.null \/ InDimIsZero(anc.ext))
                 THEN [status |-> "fatal", set |-> {}]
                 ELSE IF ~parentSchedule.null
                 THEN ActiveLoop(root, path, i + 1,
                        dom \cup apply(range(intersect_domain(parentSchedule, dom)), anc.ext))
                 ELSE ActiveLoop(root, path, i + 1, dom \cup ext_range(anc.ext))
         ELSE ActiveLoop(root, path, i + 1, dom)

activeDomainPoints(root, path) ==
    IF root.kind # "Domain" THEN [status |-> "fatal", set |-> {}]
    ELSE IF path = <<>> THEN [status |-> "ok", set |-> root.set]
    ELSE ActiveLoop(root, path, 1, root.set)

----------------------------------------------------------------------------
(* Input trees of the queries: a Domain over a path of nodes of any kind *)

SchedFilters == {SInst \cup {L1}, {}}

SchedMupas == {<<>>, <<Aff(1, 0)>>, <<AffOn(SInst \cup {L1}, 0, 0)>>}

SchedExtensions == {{ExtAt(<<>>, L1)}, {ExtAt(<<0>>, L1), ExtAt(<<>>, L2)}, {ExtAll(1, L2)}}

SchedNodes ==
    {makeFilter(f, <<>>) : f \in SchedFilters}
    \cup {makeBand(m, <<>>) : m \in SchedMupas}
    \cup {makeExtension(e, <<>>) : e \in SchedExtensions}
    \cup {makeSequence(<<>>)}

RECURSIVE SchedPaths(_)
\* the paths of n nodes, each the single child of the one before
SchedPaths(n) ==
    IF n = 1 THEN SchedNodes
    ELSE {[x EXCEPT !.children = <<c>>] : x \in SchedNodes, c \in SchedPaths(n - 1)}

SchedTrees ==
    {makeDomain(d, <<c>>) : d \in {DomInst, {}},
                            c \in UNION {SchedPaths(n) : n \in 1..MaxDepth}}

RECURSIVE LeafPath(_)
\* the path to the last node of a tree whose nodes have at most one child
LeafPath(t) == IF t.children = <<>> THEN <<>> ELSE <<1>> \o LeafPath(t.children[1])

InitSched ==
    /\ tree \in SchedTrees
    /\ pre = tree
    /\ call = NoCall
    /\ status = "none"
    /\ pc = "idle"
    /\ moveChildren = FALSE
    /\ result = {}
    /\ orig = tree

\* activeDomainPoints(root, n) and partialSchedule(root, n) at a node n
QueryCall ==
    /\ call.name = "none"
    /\ \E path \in {LeafPath(tree)} :
         LET a == activeDomainPoints(tree, path)
         IN /\ call' = [name |-> "activeDomainPoints", path |-> path]
            /\ status' = a.status
            /\ result' = [active |-> a.set,
                          partial |-> domain(partialSchedule(tree, path)),
                          before |-> a.set]
    /\ UNCHANGED <<tree, pre, pc, moveChildren, orig>>

\* a Filter node is put above the node at the first k steps of the path to n
\* (as insertExtensionAbove does with an Extension), and activeDomainPoints
\* is asked at n again
InsertFilterAndQuery ==
    /\ call.name = "activeDomainPoints"
    /\ status = "ok"
    /\ \E k \in 1..Len(call.path), f \in {SInst, {<<"S", 0>>, <<"T", 0>>, L1, L2}} :
         LET at == SubSeq(call.path, 1, k)
             newTree == ReplaceAt(tree, at, makeFilter(f, <<NodeAt(tree, at)>>))
             newPath == at \o <<1>> \o SubSeq(call.path, k + 1, Len(call.path))
             a == activeDomainPoints(newTree, newPath)
         IN /\ call' = [name |-> "insertFilter", path |-> newPath, at |-> at]
            /\ tree' = newTree
            /\ status' = a.status
            /\ result' = [active |-> a.set,
                          partial |-> domain(partialSchedule(newTree, newPath)),
                          before |-> result.active]
    /\ pre' = tree
    /\ UNCHANGED <<pc, moveChildren, orig>>

NextSched ==
    \/ QueryCall
    \/ InsertFilterAndQuery

SpecSched == InitSched /\ [][NextSched]_vars

Queried == call.name \in {"activeDomainPoints", "insertFilter"}

HasKindAbove(root, path, kind) ==
    \E i \in 1..Len(path) : NodeAt(root, SubSeq(path, 1, i - 1)).kind = kind

\* C6: when the parent of the node is an Extension with no Band above it, a
\* relation with a zero-dimensional input side adds every instance of its range
\* to the result, and a relation with input dimensions makes the call fatal.
C6_ExtensionWithoutBand ==
    (/\ Queried
     /\ Len(call.path) >= 1
     /\ NodeAt(tree, ParentPath(call.path)).kind = "Extension"
     /\ ~HasKindAbove(tree, ParentPath(call.path), "Band"))
    =>
    LET ext == NodeAt(tree, ParentPath(call.path)).ext
    IN IF \A e \in ext : e.dim = 0
       THEN status = "ok" /\ \A e \in ext : e.out \in result.active
       ELSE status = "fatal"

\* C7 as stated: at every node n the domain of partialSchedule(root, n) is a
\* subset of activeDomainPoints(root, n), and a Filter inserted on the path to
\* n adds no instance to activeDomainPoints(root, n).
C7_Original ==
    /\ (Queried /\ status = "ok") => result.partial \subseteq result.active
    /\ (call.name = "insertFilter" /\ status = "ok") => result.active \subseteq result.before

\* C7 amended: at every node n that is not itself an Extension node the domain
\* of partialSchedule(root, n) is a subset of activeDomainPoints(root, n), and
\* a Filter inserted on the path to n adds no instance to
\* activeDomainPoints(root, n).
C7_Amended ==
    /\ (Queried /\ status = "ok" /\ NodeAt(tree, call.path).kind # "Extension")
          => result.partial \subseteq result.active
    /\ (call.name = "insertFilter" /\ status = "ok") => result.active \subseteq result.before

\* an inserted Filter that removes an active instance, at a node below an
\* Extension whose instance is scheduled and active
C7_Witness ==
    /\ call.name = "insertFilter"
    /\ status = "ok"
    /\ NodeAt(tree, call.path).kind # "Extension"
    /\ HasKindAbove(tree, call.path, "Extension")
    /\ HasKindAbove(tree, call.path, "Band")
    /\ result.active # result.before
    /\ L1 \in result.partial
    /\ result.partial # result.active

----------------------------------------------------------------------------
(* Restructuring: sequences, extensions and labels *)

AllInst == DomInst \cup {L1, L2, L3}

\* isl::union_set::universe: every instance of the statements that occur in set
universe(set) == {i \in AllInst : \E j \in set : j[1] = i[1]}

\* precondition (CHECK in activeDomainPoints): root is a Domain
insertSequenceAbove(root, path) ==
    LET filter == universe(activeDomainPoints(root, path).set)
    IN ReplaceAt(root, path, makeSequence(<<makeFilter(filter, <<NodeAt(root, path)>>)>>))

insertExtensionAbove(root, path, extension) ==
    ReplaceAt(root, path, makeExtension(extension, <<NodeAt(root, path)>>))

\* precondition (CHECK): root is a Domain
insertEmptyExtensionAbove(root, path) == insertExtensionAbove(root, path, {})

RECURSIVE MupaLoop(_, _, _)
\* foldl over the Band ancestors, from number i on
MupaLoop(nodes, i, prefix) ==
    IF i > Len(nodes) THEN prefix
    ELSE IF nodes[i].kind = "Band"
    THEN MupaLoop(nodes, i + 1, flat_range_product(prefix, nodes[i].mupa))
    ELSE MupaLoop(nodes, i + 1, prefix)

\* precondition (CHECK): root is a Domain
prefixScheduleMupa(root, path) == MupaLoop(ancestors(root, path), 1, <<>>)

\* the label relation and filter are built, the filter goes to position pos
\* (0-based) of the sequence; seqPath is where the sequence is afterwards
LabelAt(root, extPath, seqPath, pos, id, unite) ==
    LET prefix == prefixScheduleMupa(root, extPath)
        extension == {ExtAll(Len(prefix), <<id, 0>>)}
        extNode == NodeAt(root, extPath)
        root1 == ReplaceAt(root, extPath,
                           [extNode EXCEPT !.ext = IF unite THEN @ \cup extension ELSE @])
        filterNode == makeFilter(ext_range(extension), <<>>)
        seqNode == NodeAt(root1, seqPath)
    IN [status |-> "ok",
        root |-> ReplaceAt(root1, seqPath,
                    [seqNode EXCEPT !.children = insertChild(@, pos + 1, filterNode)]),
        seqPath |-> seqPath, pos |-> pos]

\* insertExtensionLabelAt that leaves extension_ as it was
insertExtensionLabelAt_NoUnite(root, seqPath, pos, id) ==
    IF seqPath = <<>> \/ root.kind # "Domain"
    THEN [status |-> "fatal", root |-> root, seqPath |-> seqPath, pos |-> pos]
    ELSE
      LET reuse == NodeAt(root, ParentPath(seqPath)).kind = "Extension"
          root1 == IF reuse THEN root ELSE insertEmptyExtensionAbove(root, seqPath)
          extPath == IF reuse THEN ParentPath(seqPath) ELSE seqPath
          seqPath1 == IF reuse THEN seqPath ELSE seqPath \o <<1>>
      IN IF NodeAt(root1, seqPath1).kind # "Sequence"
         THEN [status |-> "fatal", root |-> root1, seqPath |-> seqPath1, pos |-> pos]
         ELSE LabelAt(root1, extPath, seqPath1, pos, id, FALSE)

insertExtensionLabelAt(root, seqPath, pos, id) ==
    \* seqNode->ancestor(root, 1) needs a parent; CHECK(domain) in
    \* insertEmptyExtensionAbove and prefixScheduleMupa
    IF seqPath = <<>> \/ root.kind # "Domain"
    THEN [status |-> "fatal", root |-> root, seqPath |-> seqPath, pos |-> pos]
    ELSE
      LET reuse == NodeAt(root, ParentPath(seqPath)).kind = "Extension"
          root1 == IF reuse THEN root ELSE insertEmptyExtensionAbove(root, seqPath)
          extPath == IF reuse THEN ParentPath(seqPath) ELSE seqPath
          seqPath1 == IF reuse THEN seqPath ELSE seqPath \o <<1>>
      IN IF NodeAt(root1, seqPath1).kind # "Sequence"
         THEN [status |-> "fatal", root |-> root1, seqPath |-> seqPath1, pos |-> pos]
         ELSE LabelAt(root1, extPath, seqPath1, pos, id, TRUE)

\* elemAs<ScheduleTreeElemFilter> of the parent and elemAs<Sequence> of its parent
ParentIsFilterInSequence(root, path) ==
    /\ Len(path) >= 2
    /\ NodeAt(root, ParentPath(path)).kind = "Filter"
    /\ NodeAt(root, ParentPath(ParentPath(path))).kind = "Sequence"

\* insertExtensionLabelBefore with the position after the parent filter
insertExtensionLabelBefore_AtEnd(root, path, id) ==
    IF path = <<>>
    THEN [status |-> "fatal", root |-> root, seqPath |-> path, pos |-> 0]
    ELSE IF NodeAt(root, path).kind = "Sequence"
    THEN insertExtensionLabelAt(root, path, 0, id)
    ELSE IF ParentIsFilterInSequence(root, path)
    THEN insertExtensionLabelAt(root, ParentPath(ParentPath(path)),
                                positionInParent(ParentPath(path)), id)
    ELSE insertExtensionLabelAt(insertSequenceAbove(root, path), path, 0, id)

insertExtensionLabelBefore(root, path, id) ==
    \* tree->ancestor(root, 1) needs a parent
    IF path = <<>>
    THEN [status |-> "fatal", root |-> root, seqPath |-> path, pos |-> 0]
    ELSE IF NodeAt(root, path).kind = "Sequence"
    THEN insertExtensionLabelAt(root, path, 0, id)
    ELSE IF ParentIsFilterInSequence(root, path)
    THEN insertExtensionLabelAt(root, ParentPath(ParentPath(path)),
                                positionInParent(ParentPath(path)) - 1, id)
    ELSE insertExtensionLabelAt(insertSequenceAbove(root, path), path, 0, id)

insertExtensionLabelAfter(root, path, id) ==
    IF path = <<>>
    THEN [status |-> "fatal", root |-> root, seqPath |-> path, pos |-> 0]
    ELSE IF NodeAt(root, path).kind = "Sequence"
    THEN insertExtensionLabelAt(root, path, Len(NodeAt(root, path).children), id)
    ELSE IF ParentIsFilterInSequence(root, path)
    THEN insertExtensionLabelAt(root, ParentPath(ParentPath(path)),
                                (positionInParent(ParentPath(path)) - 1) + 1, id)
    ELSE insertExtensionLabelAt(insertSequenceAbove(root, path), path, 1, id)

----------------------------------------------------------------------------
(* Input trees of the label insertions *)

LeafBand == makeBand(<<Aff(2, 1)>>, <<>>)

FilterPairs == {<<SInst, TInst>>, <<{<<"S", 0>>}, {<<"S", 1>>, L1}>>}

LabelBodies ==
    {makeSequence(<<makeFilter(f[1], <<LeafBand>>), makeFilter(f[2], <<>>)>>) :
        f \in FilterPairs}
    \cup {makeSequence(<<makeFilter(SInst, <<LeafBand>>),
                         makeMappingFilter(TInst, {"x"}, <<LeafBand>>)>>),
          LeafBand}

LabelWrappers ==
    {makeBand(<<Aff(1, 0)>>, <<>>), makeExtension({ExtAt(<<>>, L1)}, <<>>),
     makeFilter(SInst \cup {L1}, <<>>)}

RECURSIVE Wrapped(_)
\* a body under n nodes, each the single child of the one before
Wrapped(n) ==
    IF n = 0 THEN LabelBodies
    ELSE {[w EXCEPT !.children = <<c>>] : w \in LabelWrappers, c \in Wrapped(n - 1)}

LabelTrees ==
    {makeDomain(d, <<c>>) : d \in {DomInst, {}}, c \in UNION {Wrapped(n) : n \in 0..MaxWrap}}

LabelIds == {"L3", "L1"}

InitLabel ==
    /\ tree \in LabelTrees
    /\ pre = tree
    /\ call = NoCall
    /\ status = "none"
    /\ pc = "idle"
    /\ moveChildren = FALSE
    /\ result = {}
    /\ orig = tree

InsertExtensionLabelBeforeCall ==
    /\ call.name = "none"
    /\ \E path \in Paths(tree), id \in LabelIds :
         LET r == insertExtensionLabelBefore(tree, path, id)
         IN /\ call' = [name |-> "insertExtensionLabelBefore", path |-> path, id |-> id,
                        seqPath |-> r.seqPath, pos |-> r.pos]
            /\ status' = r.status
            /\ tree' = r.root
    /\ pre' = tree
    /\ UNCHANGED <<pc, moveChildren, result, orig>>

InsertExtensionLabelAfterCall ==
    /\ call.name = "none"
    /\ \E path \in Paths(tree), id \in LabelIds :
         LET r == insertExtensionLabelAfter(tree, path, id)
         IN /\ call' = [name |-> "insertExtensionLabelAfter", path |-> path, id |-> id,
                        seqPath |-> r.seqPath, pos |-> r.pos]
            /\ status' = r.status
            /\ tree' = r.root
    /\ pre' = tree
    /\ UNCHANGED <<pc, moveChildren, result, orig>>

\* activeDomainPoints(root, newFilter) after a label was inserted
ActiveAtLabelCall ==
    /\ call.name \in {"insertExtensionLabelBefore", "insertExtensionLabelAfter"}
    /\ status = "ok"
    /\ pc = "idle"
    /\ LET a == activeDomainPoints(tree, call.seqPath \o <<call.pos + 1>>)
       IN /\ result' = [active |-> a.set]
          /\ status' = a.status
    /\ pc' = "done"
    /\ UNCHANGED <<tree, pre, call, moveChildren, orig>>

NextLabel ==
    \/ InsertExtensionLabelBeforeCall
    \/ InsertExtensionLabelAfterCall
    \/ ActiveAtLabelCall

SpecLabel == InitLabel /\ [][NextLabel]_vars

LabelCalled == call.name \in {"insertExtensionLabelBefore", "insertExtensionLabelAfter"}

Label == makeFilter({<<call.id, 0>>}, <<>>)

\* where the node that was in slot p is after the call: in the slot, or below
\* the Extension created in the slot when the parent is not an Extension
Under(p) == IF NodeAt(pre, ParentPath(p)).kind = "Extension" THEN p ELSE p \o <<1>>

RECURSIVE Mentions(_, _)
Mentions(t, inst) ==
    \/ inst \in t.set
    \/ \E e \in t.ext : e.out = inst
    \/ \E i \in 1..Len(t.children) : Mentions(t.children[i], inst)

\* insertExtensionLabelBefore was called, with a fresh id, on a Sequence with
\* two Filter children with non-empty disjoint sets, and activeDomainPoints
\* was then asked at the new filter
C8Case ==
    /\ call.name = "insertExtensionLabelBefore"
    /\ pc = "done"
    /\ Len(call.path) >= 1
    /\ LET n == NodeAt(pre, call.path)
       IN /\ n.kind = "Sequence"
          /\ Len(n.children) = 2
          /\ \A i \in 1..2 : n.children[i].kind = "Filter" /\ n.children[i].set # {}
          /\ n.children[1].set \cap n.children[2].set = {}
    /\ ~Mentions(pre, <<call.id, 0>>)

C8Structure ==
    LET seq == NodeAt(tree, Under(call.path))
    IN /\ seq.kind = "Sequence"
       /\ seq.children = <<Label>> \o NodeAt(pre, call.path).children
       /\ NodeAt(tree, ParentPath(Under(call.path))).kind = "Extension"
       /\ <<call.id, 0>> \notin seq.children[2].set \cup seq.children[3].set

\* C8 as stated: the sequence has a new childless Filter at position 0 under an
\* Extension directly above it, and activeDomainPoints at the new filter is
\* exactly the singleton of the instance tagged id, disjoint from F1 and F2.
C8_Original ==
    C8Case => (C8Structure /\ result.active = {<<call.id, 0>>})

\* C8 amended: the sequence has a new childless Filter at position 0, whose set
\* is the singleton of the instance tagged id and is disjoint from F1 and F2,
\* under an Extension directly above it; activeDomainPoints at the new filter
\* does not apply the new filter's own set: it is the set of instances active
\* at the sequence before the call, plus the instance tagged id when some
\* instance active at the Extension has a prefix schedule there.
C8_Amended ==
    C8Case =>
      LET extPath == ParentPath(Under(call.path))
          scheduled == intersect_domain(prefixSchedule(tree, extPath),
                                        activeDomainPoints(tree, extPath).set)
      IN /\ C8Structure
         /\ result.active = activeDomainPoints(pre, call.path).set
                               \cup (IF scheduled.rel # {} THEN {<<call.id, 0>>} ELSE {})
         /\ result.active \cap NodeAt(tree, Under(call.path)).children[1].set
               \subseteq {<<call.id, 0>>}

\* the label is active at the new filter together with instances of the domain,
\* below a band
C8_Witness ==
    /\ C8Case
    /\ <<call.id, 0>> \in result.active
    /\ Cardinality(result.active) > 1
    /\ HasKindAbove(pre, call.path, "Band")

\* C9: Before/After add one label Filter to a Sequence and keep the order of
\* its other children: first/last child when node is a Sequence; the sibling
\* right before/after node's parent when that is a Filter directly in a
\* Sequence (no Sequence is created); otherwise a new Sequence in node's slot
\* (below the Extension made for the label) with the label and the filter that
\* wraps node, in that order for Before and reversed for After.
C9_LabelPosition ==
    (LabelCalled /\ Len(call.path) >= 1) =>
      LET node == NodeAt(pre, call.path)
          before == call.name = "insertExtensionLabelBefore"
          filterPath == ParentPath(call.path)
          seqPath == ParentPath(filterPath)
          k == positionInParent(filterPath)
          wrap == makeFilter(universe(activeDomainPoints(pre, call.path).set), <<node>>)
      IN IF node.kind = "Sequence"
         THEN /\ NodeAt(tree, Under(call.path)) =
                   [node EXCEPT !.children = IF before THEN <<Label>> \o @ ELSE @ \o <<Label>>]
              /\ CountKind(tree, "Sequence") = CountKind(pre, "Sequence")
         ELSE IF /\ Len(call.path) >= 2
                 /\ NodeAt(pre, filterPath).kind = "Filter"
                 /\ NodeAt(pre, seqPath).kind = "Sequence"
         THEN LET old == NodeAt(pre, seqPath).children
                  new == NodeAt(tree, Under(seqPath)).children
              IN /\ Len(new) = Len(old) + 1
                 /\ new[IF before THEN k ELSE k + 1] = Label
                 /\ new[IF before THEN k + 1 ELSE k] = old[k]
                 /\ detachChild(new, IF before THEN k ELSE k + 1) = old
                 /\ CountKind(tree, "Sequence") = CountKind(pre, "Sequence")
         ELSE /\ NodeAt(tree, Under(call.path)) =
                   makeSequence(IF before THEN <<Label, wrap>> ELSE <<wrap, Label>>)
              /\ CountKind(tree, "Sequence") = CountKind(pre, "Sequence") + 1

\* a label put right after the first of two filters of a sequence
C9_Witness ==
    /\ call.name = "insertExtensionLabelAfter"
    /\ status = "ok"
    /\ Len(call.path) >= 2
    /\ NodeAt(pre, ParentPath(call.path)).kind = "Filter"
    /\ NodeAt(pre, ParentPath(ParentPath(call.path))).kind = "Sequence"
    /\ positionInParent(ParentPath(call.path)) = 1
    /\ Len(NodeAt(tree, call.seqPath).children) = 3
    /\ NodeAt(tree, call.seqPath).children[2] = Label

----------------------------------------------------------------------------
(* Simplification and reordering *)

Statements(set) == {i[1] : i \in set}

\* isl::union_set::gist(context): a set that agrees with the filter inside
\* the context.  Statements without instances in the context are dropped; a
\* statement whose instances in the context are all outside the filter becomes
\* empty; one whose instances in the context are all inside it becomes its
\* universe; otherwise the statement's part of the filter is kept.
set_gist(filter, context) ==
    UNION {LET f == {i \in filter : i[1] = st}
               c == {i \in context : i[1] = st}
           IN IF f \cap c = {} THEN {}
              ELSE IF c \subseteq f THEN universe(c)
              ELSE f : st \in Statements(filter) \cap Statements(context)}

\* isl::multi_union_pw_aff::gist(context): the members keep their values on
\* the statements of the context
mupa_gist(mupa, context) ==
    [j \in 1..Len(mupa) |->
        [p \in {q \in DOMAIN mupa[j] : q[1] \in Statements(context)} |-> mupa[j][p]]]

IsEmptyFilter(n) == IsFilterBase(n) /\ n.set = {}

RECURSIVE DropEmptyFilters(_)
\* the backwards loop over the children of a Sequence
DropEmptyFilters(children) ==
    IF children = <<>> THEN <<>>
    ELSE IF IsEmptyFilter(Head(children)) THEN DropEmptyFilters(Tail(children))
    ELSE <<Head(children)>> \o DropEmptyFilters(Tail(children))

RECURSIVE gist_KeepChildren(_, _)
\* gist without detachChildren at a filter that became empty
gist_KeepChildren(t, context) ==
    LET t1 == IF t.kind = "Band"
              THEN [t EXCEPT !.mupa = mupa_gist(@, context)]
              ELSE IF IsFilterBase(t)
              THEN [t EXCEPT !.set = set_gist(@, context)]
              ELSE t
        t2 == [t1 EXCEPT !.children = [i \in 1..Len(t1.children) |->
                                          gist_KeepChildren(t1.children[i], context)]]
    IN IF t2.kind = "Sequence"
       THEN [t2 EXCEPT !.children = DropEmptyFilters(@)]
       ELSE t2

RECURSIVE gist(_, _)
gist(t, context) ==
    LET t1 == IF t.kind = "Band"
              THEN [t EXCEPT !.mupa = mupa_gist(@, context)]
              ELSE IF IsFilterBase(t)
              THEN LET f == set_gist(t.set, context)
                   IN [t EXCEPT !.set = f, !.children = IF f = {} THEN <<>> ELSE @]
              ELSE t
        t2 == [t1 EXCEPT !.children = [i \in 1..Len(t1.children) |-> gist(t1.children[i], context)]]
    IN IF t2.kind = "Sequence"
       THEN [t2 EXCEPT !.children = DropEmptyFilters(@)]
       ELSE t2

gistedFilter(filter, child) == makeFilter(filter, <<gist(child, filter)>>)

\* orderBefore without subtract(filter)
orderBefore_OtherIsActive(root, path, filter) ==
    LET active == activeDomainPoints(root, path)
        other == active.set
        node == NodeAt(root, path)
    IN IF active.status = "fatal" \/ path = <<>>
       THEN [status |-> "fatal", root |-> root]
       ELSE [status |-> "ok",
             root |-> ReplaceAt(root, path,
                        makeSequence(<<gistedFilter(filter, node), gistedFilter(other, node)>>))]

orderBefore(root, path, filter) ==
    LET active == activeDomainPoints(root, path)
        other == active.set \ filter
        node == NodeAt(root, path)
    \* CHECK in activeDomainPoints; tree->ancestor(root, 1) needs a parent
    IN IF active.status = "fatal" \/ path = <<>>
       THEN [status |-> "fatal", root |-> root]
       ELSE [status |-> "ok",
             root |-> ReplaceAt(root, path,
                        makeSequence(<<gistedFilter(filter, node), gistedFilter(other, node)>>))]

orderAfter(root, path, filter) ==
    LET active == activeDomainPoints(root, path)
        other == active.set \ filter
        node == NodeAt(root, path)
    IN IF active.status = "fatal" \/ path = <<>>
       THEN [status |-> "fatal", root |-> root]
       ELSE [status |-> "ok",
             root |-> ReplaceAt(root, path,
                        makeSequence(<<gistedFilter(other, node), gistedFilter(filter, node)>>))]

OrderFilters == {SInst, {<<"S", 0>>, <<"T", 0>>}, {L1, L3}, {}}

OrderBeforeCall ==
    /\ call.name = "none"
    /\ \E path \in Paths(tree), filter \in OrderFilters :
         LET r == orderBefore(tree, path, filter)
         IN /\ call' = [name |-> "orderBefore", path |-> path, filter |-> filter]
            /\ status' = r.status
            /\ tree' = r.root
    /\ pre' = tree
    /\ UNCHANGED <<pc, moveChildren, result, orig>>

OrderAfterCall ==
    /\ call.name = "none"
    /\ \E path \in Paths(tree), filter \in OrderFilters :
         LET r == orderAfter(tree, path, filter)
         IN /\ call' = [name |-> "orderAfter", path |-> path, filter |-> filter]
            /\ status' = r.status
            /\ tree' = r.root
    /\ pre' = tree
    /\ UNCHANGED <<pc, moveChildren, result, orig>>

NextOrder ==
    \/ OrderBeforeCall
    \/ OrderAfterCall

SpecOrder == InitLabel /\ [][NextOrder]_vars

\* C10: after orderBefore the slot of node holds a Sequence of two Filters, the
\* first with set F and the second with the instances active at node before
\* the call minus F; after orderAfter the two are in the opposite order; the
\* two sets are disjoint, every instance that was active at node is in exactly
\* one of them, and nothing outside the slot has changed.
C10_Order ==
    (call.name \in {"orderBefore", "orderAfter"} /\ Len(call.path) >= 1) =>
      LET A == activeDomainPoints(pre, call.path).set
          F == call.filter
          seq == NodeAt(tree, call.path)
          first == IF call.name = "orderBefore" THEN 1 ELSE 2
          rest == 3 - first
      IN /\ status = "ok"
         /\ seq.kind = "Sequence"
         /\ Len(seq.children) = 2
         /\ seq.children[1].kind = "Filter" /\ seq.children[2].kind = "Filter"
         /\ seq.children[first].set = F
         /\ seq.children[rest].set = A \ F
         /\ seq.children[1].set \cap seq.children[2].set = {}
         /\ \A a \in A : (a \in seq.children[1].set) # (a \in seq.children[2].set)
         /\ ReplaceAt(tree, call.path, NodeAt(pre, call.path)) = pre

\* orderAfter at a node below an Extension, with a filter that holds both
\* active and inactive instances and leaves some active instance out
C10_Witness ==
    /\ call.name = "orderAfter"
    /\ status = "ok"
    /\ HasKindAbove(pre, call.path, "Extension")
    /\ LET A == activeDomainPoints(pre, call.path).set
       IN /\ call.filter \cap A # {}
          /\ call.filter \ A # {}
          /\ A \ call.filter # {}
          /\ L1 \in A

----------------------------------------------------------------------------
(* Simplification of a subtree in a context *)

\* the filters of the children of the sequences given to gist
GistSets == {SInst, TInst, {<<"S", 0>>, L1}, {}}

\* child number i of such a sequence: a Filter at the odd positions and a
\* MappingFilter at the even ones, each over a band
GistChild(i, set) ==
    IF i % 2 = 1 THEN makeFilter(set, <<LeafBand>>)
    ELSE makeMappingFilter(set, {"x"}, <<LeafBand>>)

GistSeqs(n) ==
    {makeSequence([i \in 1..n |-> GistChild(i, f[i])]) : f \in [1..n -> GistSets]}

\* a sequence below a filter of a sequence
GistNested ==
    {makeSequence(<<makeFilter(DomInst, <<s>>), makeFilter({L1}, <<>>)>>) :
        s \in GistSeqs(2)}

GistBodies == (UNION {GistSeqs(n) : n \in 1..MaxGistSeq}) \cup GistNested

GistTrees ==
    {makeDomain(DomInst, <<c>>) : c \in GistBodies}
    \cup {makeDomain(DomInst, <<makeFilter(SInst, <<c>>)>>) : c \in GistBodies}

GistContexts ==
    {DomInst, SInst, TInst, {<<"S", 1>>, <<"T", 0>>}, {<<"S", 0>>, L1}, {}}

InitGist ==
    /\ tree \in GistTrees
    /\ pre = tree
    /\ call = NoCall
    /\ status = "none"
    /\ pc = "idle"
    /\ moveChildren = FALSE
    /\ result = {}
    /\ orig = tree

\* gist(tree, context) on the subtree at path
GistCall ==
    /\ call.name = "none"
    /\ \E path \in Paths(tree), context \in GistContexts :
         /\ call' = [name |-> "gist", path |-> path, context |-> context,
                     gisted |-> path]
         /\ tree' = ReplaceAt(tree, path, gist(NodeAt(tree, path), context))
    /\ status' = "ok"
    /\ pre' = tree
    /\ UNCHANGED <<pc, moveChildren, result, orig>>

\* the subtree at path replaced by gistedFilter(filter, subtree)
GistedFilterCall ==
    /\ call.name = "none"
    /\ \E path \in Paths(tree), filter \in GistContexts :
         /\ call' = [name |-> "gistedFilter", path |-> path, context |-> filter,
                     gisted |-> path \o <<1>>]
         /\ tree' = ReplaceAt(tree, path, gistedFilter(filter, NodeAt(tree, path)))
    /\ status' = "ok"
    /\ pre' = tree
    /\ UNCHANGED <<pc, moveChildren, result, orig>>

NextGist ==
    \/ GistCall
    \/ GistedFilterCall

SpecGist == InitGist /\ [][NextGist]_vars

GistCalled == call.name \in {"gist", "gistedFilter"}

\* the child of a node is removed by gist in the context: the node is a
\* filter that becomes empty, or the node is a Sequence and the child is a
\* filter that becomes empty
Removed(n, i, context) ==
    \/ IsFilterBase(n) /\ set_gist(n.set, context) = {}
    \/ /\ n.kind = "Sequence"
       /\ IsFilterBase(n.children[i])
       /\ set_gist(n.children[i].set, context) = {}

\* the children of a Sequence that gist keeps, as their positions in order
RECURSIVE KeptUpTo(_, _, _)
KeptUpTo(n, i, context) ==
    IF i = 0 THEN <<>>
    ELSE KeptUpTo(n, i - 1, context)
         \o (IF Removed(n, i, context) THEN <<>> ELSE <<i>>)

Gone == <<0>>

\* where gist in the context leaves the node that was at path p below n: its
\* path in the result, or Gone when it was removed
RECURSIVE Image(_, _, _)
Image(n, p, context) ==
    IF p = <<>> THEN <<>>
    ELSE IF Removed(n, Head(p), context) THEN Gone
    ELSE LET rest == Image(n.children[Head(p)], Tail(p), context)
         IN IF rest = Gone THEN Gone
            ELSE <<Len(KeptUpTo(n, Head(p), context))>> \o rest

\* C11: after gist(tree, context), every Filter or MappingFilter of the tree
\* with an empty set has no children, no Sequence of the tree has a Filter or
\* MappingFilter child with an empty set, and the children of every Sequence
\* that is still in the tree are the children it had whose filter did not
\* become empty, in their original order.
C11_Gist ==
    GistCalled =>
      LET g == NodeAt(tree, call.gisted)
          old == NodeAt(pre, call.path)
      IN /\ \A p \in Paths(g) :
              LET n == NodeAt(g, p)
              IN /\ IsEmptyFilter(n) => n.children = <<>>
                 /\ n.kind = "Sequence" =>
                      \A i \in 1..Len(n.children) : ~IsEmptyFilter(n.children[i])
         /\ \A q \in Paths(old) :
              LET seq == NodeAt(old, q)
                  at == Image(old, q, call.context)
                  kept == KeptUpTo(seq, Len(seq.children), call.context)
              IN (seq.kind = "Sequence" /\ at # Gone) =>
                   /\ at \in Paths(g)
                   /\ NodeAt(g, at).kind = "Sequence"
                   /\ Len(NodeAt(g, at).children) = Len(kept)
                   /\ \A j \in 1..Len(kept) :
                        LET c == NodeAt(g, at).children[j]
                            o == seq.children[kept[j]]
                        IN /\ c.kind = o.kind
                           /\ c.ids = o.ids
                           /\ c.set = set_gist(o.set, call.context)

\* gist of a Sequence of three filters where the middle one becomes empty and
\* the other two stay, with different sets
C11_Witness ==
    /\ call.name = "gist"
    /\ LET old == NodeAt(pre, call.path)
           g == NodeAt(tree, call.gisted)
       IN /\ old.kind = "Sequence"
          /\ Len(old.children) = 3
          /\ old.children[2].set # {}
          /\ KeptUpTo(old, 3, call.context) = <<1, 3>>
          /\ Len(g.children) = 2
          /\ g.children[1].set # g.children[2].set

----------------------------------------------------------------------------
(* Merging of directly nested mapping filters *)

\* ScheduleTree::collect(node, type): the nodes of that type in the subtree of
\* the node at path, the node itself included, parents before children
RECURSIVE collect(_, _, _)
collect(root, path, kind) ==
    LET t == NodeAt(root, path)
        RECURSIVE Below(_)
        Below(i) == IF i = 0 THEN <<>>
                    ELSE Below(i - 1) \o collect(root, path \o <<i>>, kind)
    IN (IF t.kind = kind THEN <<path>> ELSE <<>>) \o Below(Len(t.children))

\* isl::union_set::n_set: the number of statements with an instance in the set
n_set(set) == Cardinality(Statements(set))

\* the tests of the scan that let the filter at path f be merged into its
\* parent: the parent is a MappingFilter and the intersection has as many
\* tuples as either filter
Mergeable(root, f) ==
    /\ f # <<>>
    /\ NodeAt(root, ParentPath(f)).kind = "MappingFilter"
    /\ LET merged == NodeAt(root, ParentPath(f)).set \cap NodeAt(root, f).set
       IN /\ n_set(merged) = n_set(NodeAt(root, ParentPath(f)).set)
          /\ n_set(merged) = n_set(NodeAt(root, f).set)

\* mergeFilters without the CHECK_EQ on the ids
mergeFilters_NoIdCheck(p, f, pos) ==
    IF f.children = <<>> THEN [status |-> "bounds", node |-> p]
    ELSE [status |-> "ok",
          node |-> [p EXCEPT !.set = p.set \cap f.set,
                             !.ids = p.ids \cup f.ids,
                             !.children[pos] = f.children[1]]]

\* the body of the scan for a filter f that is merged into its parent p, where
\* it is child number pos: "fatal" when an id is mapped in both, "bounds" when
\* f has no child 0 to detach
mergeFilters(p, f, pos) ==
    IF p.ids \cap f.ids # {} THEN [status |-> "fatal", node |-> p]
    ELSE IF f.children = <<>> THEN [status |-> "bounds", node |-> p]
    ELSE [status |-> "ok",
          node |-> [p EXCEPT !.set = p.set \cap f.set,
                             !.ids = p.ids \cup f.ids,
                             \* p->replaceChild(pos, f->detachChild(0))
                             !.children[pos] = f.children[1]]]

RECURSIVE FirstMergeable(_, _)
\* the first of the filter nodes that passes the tests, if any
FirstMergeable(root, filterNodes) ==
    IF filterNodes = <<>> THEN <<>>
    ELSE IF Mergeable(root, Head(filterNodes)) THEN <<Head(filterNodes)>>
    ELSE FirstMergeable(root, Tail(filterNodes))

\* the for loop over the collected filter nodes: the first one that can be
\* merged is merged and the loop ends
mergeScan(root, filterNodes) ==
    LET found == FirstMergeable(root, filterNodes)
    IN IF found = <<>>
       THEN [status |-> "ok", changed |-> FALSE, root |-> root, f |-> <<>>]
       ELSE LET f == Head(found)
                m == mergeFilters(NodeAt(root, ParentPath(f)), NodeAt(root, f),
                                  positionInParent(f))
            IN [status |-> m.status, changed |-> m.status = "ok",
                root |-> ReplaceAt(root, ParentPath(f), m.node), f |-> f]

\* the filters of a chain are alternately MergeA and MergeB, which share one
\* instance of S and all of T; one of them may be replaced by MergeC, which
\* shares another instance of S with each, or by a filter without T
MergeA == {<<"S", 0>>, <<"S", 1>>} \cup TInst
MergeB == {<<"S", 1>>, <<"S", 2>>} \cup TInst
MergeC == {<<"S", 0>>, <<"S", 2>>} \cup TInst

MergeSets(k) ==
    {[i \in 1..k |-> IF i = j THEN other ELSE IF i % 2 = 1 THEN MergeA ELSE MergeB] :
        j \in 0..k, other \in {MergeC, SInst}}

\* the mapping ids of the filters of a chain: each has its own, but for one
\* that may have the id of the first
MergeIds(k) ==
    {[i \in 1..k |-> IF i = j THEN {"id1"} ELSE {"id" \o ToString(i)}] : j \in 1..k}

\* what the last filter of a chain has below it
MergeLeaves == {<<>>, <<LeafBand>>, <<LeafBand, makeFilter(TInst, <<>>)>>}

RECURSIVE MergeChain(_, _, _, _)
\* the chain of the filters number i and up
MergeChain(i, sets, ids, leaves) ==
    makeMappingFilter(sets[i], ids[i],
        IF i = Len(sets) THEN leaves ELSE <<MergeChain(i + 1, sets, ids, leaves)>>)

MergeChains(k, leafLists) ==
    {MergeChain(1, sets, ids, leaves) :
        sets \in MergeSets(k), ids \in MergeIds(k), leaves \in leafLists}

MergeTrees ==
    LET chains == UNION {MergeChains(k, MergeLeaves) : k \in 1..MaxMergeChain}
    IN {makeDomain(DomInst, <<c>>) : c \in chains}
       \cup {makeDomain(DomInst, <<LeafBand, makeBand(<<Aff(1, 0)>>, <<c>>)>>) :
               c \in MergeChains(2, {<<LeafBand>>})}
       \cup {makeBand(<<Aff(1, 0)>>, <<c>>) : c \in MergeChains(1, {<<LeafBand>>})}

InitMerge ==
    /\ tree \in MergeTrees
    /\ pre = tree
    /\ call = NoCall
    /\ status = "none"
    /\ pc = "idle"
    /\ moveChildren = FALSE
    /\ result = {}
    /\ orig = tree

\* the call, up to the first test of the while loop
MergeCall ==
    /\ call.name = "none"
    /\ \E path \in {p \in Paths(tree) : Len(p) <= MaxMergeNode} :
         call' = [name |-> "mergeConsecutiveMappingFilters", path |-> path,
                  freed |-> FALSE]
    /\ IF tree.kind \in {"Domain", "Extension"}
       THEN status' = "none" /\ pc' = "loop"
       ELSE status' = "fatal" /\ pc' = "done"
    /\ pre' = tree
    /\ UNCHANGED <<tree, moveChildren, result, orig>>

\* the start of a pass of the while loop: the mapping filters below node
MergeCollect ==
    /\ call.name = "mergeConsecutiveMappingFilters"
    /\ pc = "loop"
    /\ ~call.freed
    /\ result' = collect(tree, call.path, "MappingFilter")
    /\ pc' = "scan"
    /\ UNCHANGED <<tree, pre, call, status, moveChildren, orig>>

\* the rest of a pass that merges a filter; merging the node the call was
\* given frees it
MergeStep ==
    /\ call.name = "mergeConsecutiveMappingFilters"
    /\ pc = "scan"
    /\ FirstMergeable(tree, result) # <<>>
    /\ \E r \in {mergeScan(tree, result)} :
          \/ /\ r.status = "ok"
             /\ tree' = r.root
             /\ call' = [call EXCEPT !.freed = (r.f = call.path)]
             /\ pc' = "loop"
             /\ UNCHANGED status
          \/ /\ r.status = "fatal"
             /\ status' = "fatal"
             /\ pc' = "done"
             /\ UNCHANGED <<tree, call>>
          \* detachChild(0) of a node without children
          \/ /\ r.status = "bounds"
             /\ status' \in {"fatal", "undefined"}
             /\ pc' = "done"
             /\ UNCHANGED <<tree, call>>
    /\ UNCHANGED <<pre, moveChildren, result, orig>>

\* the rest of a pass that finds nothing to merge, and the return of node
MergeReturn ==
    /\ call.name = "mergeConsecutiveMappingFilters"
    /\ pc = "scan"
    /\ FirstMergeable(tree, result) = <<>>
    /\ status' = "ok"
    /\ pc' = "done"
    /\ UNCHANGED <<tree, pre, call, moveChildren, result, orig>>

\* the next pass after node was merged away: collect(node) reads a freed node
MergeAfterFree ==
    /\ call.name = "mergeConsecutiveMappingFilters"
    /\ pc = "loop"
    /\ call.freed
    /\ status' \in {"fatal", "undefined"}
    /\ pc' = "done"
    /\ UNCHANGED <<tree, pre, call, moveChildren, result, orig>>

NextMerge ==
    \/ MergeCall
    \/ MergeCollect
    \/ MergeStep
    \/ MergeReturn
    \/ MergeAfterFree

SpecMerge == InitMerge /\ [][NextMerge]_vars

\* the passes of the loop are steps of one sequential call: it keeps running
SpecMergeFair == SpecMerge /\ WF_vars(NextMerge)

MergeDone == call.name = "mergeConsecutiveMappingFilters" /\ pc = "done"

IsPrefix(p, q) == Len(p) <= Len(q) /\ SubSeq(q, 1, Len(p)) = p

\* the node at top is the outermost filter of a chain
ChainTop(t, top) ==
    /\ top # <<>>
    /\ NodeAt(t, top).kind = "MappingFilter"
    /\ NodeAt(t, ParentPath(top)).kind # "MappingFilter"

\* filter number i of the chain below top
ChainNode(t, top, i) == NodeAt(t, top \o [j \in 1..(i - 1) |-> 1])

RECURSIVE ChainLen(_, _)
\* the number of directly nested mapping filters from the one at path p on
ChainLen(t, p) ==
    LET n == NodeAt(t, p)
    IN IF Len(n.children) = 1 /\ n.children[1].kind = "MappingFilter"
       THEN 1 + ChainLen(t, p \o <<1>>)
       ELSE 1

RECURSIVE ChainInter(_, _, _)
\* the intersection of the filters number 1 to i of the chain
ChainInter(t, top, i) ==
    IF i = 1 THEN ChainNode(t, top, 1).set
    ELSE ChainInter(t, top, i - 1) \cap ChainNode(t, top, i).set

ChainIds(t, top, K) == UNION {ChainNode(t, top, i).ids : i \in 1..K}

DisjointIds(t, top, K) ==
    \A i, j \in 1..K :
        i # j => ChainNode(t, top, i).ids \cap ChainNode(t, top, j).ids = {}

\* every two filters of the chain intersect in as many tuples as each has
PairwiseCompatible(t, top, K) ==
    \A i, j \in 1..K :
        LET m == ChainNode(t, top, i).set \cap ChainNode(t, top, j).set
        IN /\ n_set(m) = n_set(ChainNode(t, top, i).set)
           /\ n_set(m) = n_set(ChainNode(t, top, j).set)

\* every filter of the chain intersects the intersection of the ones above it
\* in as many tuples as each of the two has
RunningCompatible(t, top, K) ==
    \A i \in 2..K :
        LET m == ChainInter(t, top, i)
        IN /\ n_set(m) = n_set(ChainInter(t, top, i - 1))
           /\ n_set(m) = n_set(ChainNode(t, top, i).set)

\* the chain that was at top has become one MappingFilter with the ids and
\* the filters of all, and nothing outside it has changed
MergedInto(top, K) ==
    /\ status = "ok"
    /\ NodeAt(tree, top).kind = "MappingFilter"
    /\ CountKind(NodeAt(tree, top), "MappingFilter") = 1
    /\ NodeAt(tree, top).ids = ChainIds(pre, top, K)
    /\ NodeAt(tree, top).set = ChainInter(pre, top, K)
    /\ ReplaceAt(tree, top, NodeAt(pre, top)) = pre

\* the chains of the tree the call was made on, for a node that is the
\* outermost filter of the chain or above it, below a root the call accepts
CalledOnChain(top) ==
    /\ MergeDone
    /\ pre.kind \in {"Domain", "Extension"}
    /\ top \in Paths(pre)
    /\ ChainTop(pre, top)
    /\ IsPrefix(call.path, top)

MergedChains ==
    \A top \in Paths(pre) :
        LET K == ChainLen(pre, top)
        IN (CalledOnChain(top) /\ RunningCompatible(pre, top, K)) =>
             IF DisjointIds(pre, top, K)
             THEN ChainNode(pre, top, K).children # <<>> => MergedInto(top, K)
             ELSE status = "fatal"

RECURSIVE NonFilters(_)
NonFilters(t) ==
    LET RECURSIVE Below(_)
        Below(i) == IF i = 0 THEN <<>>
                    ELSE Below(i - 1) \o NonFilters(t.children[i])
    IN (IF t.kind = "MappingFilter" THEN <<>> ELSE <<[t EXCEPT !.children = <<>>]>>)
       \o Below(Len(t.children))

\* no chain of the tree has an id in two of its filters
NoSharedIds(t) ==
    \A top \in Paths(t) :
        ChainTop(t, top) => DisjointIds(t, top, ChainLen(t, top))

\* C13: mergeConsecutiveMappingFilters (below a root it accepts, with no id
\* mapped twice) returns, the nodes of the tree that are not mapping filters
\* are all still in the tree and in their order, whatever the number of
\* children of the filters that were merged, and the node the call returns is
\* still in the tree.
C13_OnlyFiltersRemoved ==
    (MergeDone /\ pre.kind \in {"Domain", "Extension"} /\ NoSharedIds(pre)) =>
        /\ status = "ok"
        /\ NonFilters(tree) = NonFilters(pre)
        /\ ~call.freed
        /\ call.path \in Paths(tree)

====
